---- MODULE Spec2Model ----
(***************************************************************************)
(* Aptus legal-document simplifier: the UI state of App.tsx / InputCard.tsx *)
(* and the request pipeline of services/gemini.ts (file preprocessing,      *)
(* analyzeDocument, callWithRetry).                                         *)
(*                                                                          *)
(* Strings the code only compares or concatenates are modelled as sequences *)
(* of tokens: '' is << >>, String.includes(c) is membership of the token c, *)
(* a template string is the sequence of its pieces.                         *)
(***************************************************************************)
EXTENDS Integers, Sequences, FiniteSets, TLC

(* App's isDarkMode and showPrivacy, InputCard's dragActive and isCameraOpen  *)
(* and ResultsView's tab state are written only by their own handlers        *)
(* (toggleTheme, the privacy buttons, the drag and camera handlers, the      *)
(* tabs), which read and write nothing else; they are left out.  A camera    *)
(* capture reaches the state only through handleFiles.                       *)
VARIABLES status, inputState, result, errorMsg,
          uploadProgress, timers, validationErrors, apiKey, reqs, outcome

vars == <<status, inputState, result, errorMsg,
          uploadProgress, timers, validationErrors, apiKey, reqs, outcome>>

----------------------------------------------------------------------------
(* Bounds of the model: attached files, files offered at once, live        *)
(* intervals per file id, requests in flight, API calls of one request (a   *)
(* cap above what callWithRetry allows), files of a pipeline start state,   *)
(* files offered at once when the input card is explored alone              *)

MaxFiles == 2
MaxBatch == 1
MaxTimers == 1
MaxRequests == 2
MaxAttempts == 5
PipelineFiles == 2
InputBatch == 2

----------------------------------------------------------------------------
(* Program constants *)

MAX_RETRIES == 3
INITIAL_RETRY_DELAY == 1000
MAX_FILE_SIZE_MB == 20
MAX_FILE_SIZE_BYTES == MAX_FILE_SIZE_MB * 1024 * 1024

IDLE == "IDLE"
PROCESSING == "PROCESSING"
SUCCESS == "SUCCESS"
ERROR == "ERROR"
AppStatus == {IDLE, PROCESSING, SUCCESS, ERROR}

LANGUAGES == {"English", "Español"}

----------------------------------------------------------------------------
(* Generic helpers *)

Range(s) == {s[i] : i \in DOMAIN s}

\* String.prototype.includes on a tokenised string
includes(msg, tok) == tok \in Range(msg)

IsSpace(c) == c = " "

RECURSIVE trimStart(_)
trimStart(s) == IF s # << >> /\ IsSpace(Head(s)) THEN trimStart(Tail(s)) ELSE s

RECURSIVE trimEnd(_)
trimEnd(s) == IF s # << >> /\ IsSpace(s[Len(s)])
                THEN trimEnd(SubSeq(s, 1, Len(s) - 1)) ELSE s

\* String.prototype.trim
trim(s) == trimEnd(trimStart(s))

\* the i-th element removed: Array.prototype.filter((_, i) => i !== index)
RemoveAt(s, index) == [k \in 1..(Len(s) - 1) |-> IF k < index THEN s[k] ELSE s[k + 1]]

\* new Error(message); status is 0 when the error carries none
Err(message) == [status |-> 0, message |-> message]

NoError == [status |-> -1, message |-> << >>]

----------------------------------------------------------------------------
(* Files the user can offer.  type is <<major, minor>> of the MIME type, so *)
(* that type.startsWith('image/') is a test of the major part.              *)

txtFile == [name |-> "a.txt", size |-> 1024, lastModified |-> 1,
            type |-> <<"text", "plain">>]
pdfFile == [name |-> "b.pdf", size |-> 0, lastModified |-> 1,
            type |-> <<"application", "pdf">>]
bigFile == [name |-> "big.pdf", size |-> MAX_FILE_SIZE_BYTES + 1, lastModified |-> 1,
            type |-> <<"application", "pdf">>]
exeFile == [name |-> "c.exe", size |-> 2048, lastModified |-> 1,
            type |-> <<"application", "x-msdownload">>]
imgFile == [name |-> "d.jpg", size |-> 4096, lastModified |-> 1,
            type |-> <<"image", "jpeg">>]
docFile == [name |-> "e.pdf", size |-> 8192, lastModified |-> 1,
            type |-> <<"application", "pdf">>]
bigExeFile == [name |-> "f.exe", size |-> MAX_FILE_SIZE_BYTES + 1, lastModified |-> 1,
               type |-> <<"application", "x-msdownload">>]
edgeFile == [name |-> "g.pdf", size |-> MAX_FILE_SIZE_BYTES, lastModified |-> 1,
             type |-> <<"application", "pdf">>]

\* the files offered through browse, drop and capture
FileUniverse == {txtFile, bigFile, exeFile}

\* the files a request is started with when the pipeline is explored alone
PipelineUniverse == {txtFile, pdfFile, imgFile, docFile}

\* the files offered when the input card is explored alone
InputUniverse == {txtFile, imgFile, edgeFile, exeFile, bigExeFile}

InputBatches == UNION {[1..n -> InputUniverse] : n \in 1..InputBatch}

Batches == UNION {[1..n -> FileUniverse] : n \in 1..MaxBatch}

Texts == {<< >>, <<" ">>, <<"a">>}

getFileId(file) == <<file.name, file.size, file.lastModified>>

FileIds == {getFileId(f) : f \in FileUniverse \cup PipelineUniverse \cup InputUniverse}

isImage(file) == file.type[1] = "image"
isPdf(file) == file.type = <<"application", "pdf">>
isTxt(file) == file.type = <<"text", "plain">>

\* uploadProgress[getFileId(f)] ?? 0
progressOf(up, id) == IF id \in DOMAIN up THEN up[id] ELSE 0

\* { ...prev, [fileId]: v }
withKey(up, id, v) == [k \in (DOMAIN up) \cup {id} |-> IF k = id THEN v ELSE up[k]]

\* delete next[id]
withoutKey(up, id) == [k \in (DOMAIN up) \ {id} |-> up[k]]

\* what one interval tick can add: increment + Math.random() * 5, abstracted
Increments == {60}

min(a, b) == IF a < b THEN a ELSE b

----------------------------------------------------------------------------
(* InputCard: validation of one offered file (handleFiles loop body)        *)

\* tooLarge with a file of exactly the limit turned away
tooLargeInclusive(file) == file.size >= MAX_FILE_SIZE_BYTES

tooLarge(file) == file.size > MAX_FILE_SIZE_BYTES
supported(file) == isImage(file) \/ isPdf(file) \/ isTxt(file)
accepted(file) == ~tooLarge(file) /\ supported(file)

errorFor(file) ==
  IF tooLarge(file) THEN <<"\"", file.name, "\" exceeds ", MAX_FILE_SIZE_MB, "MB.">>
  ELSE <<"\"", file.name, "\" is not supported.">>

RECURSIVE validFilesOf(_)
validFilesOf(files) ==
  IF files = << >> THEN << >>
  ELSE (IF accepted(Head(files)) THEN <<Head(files)>> ELSE << >>)
         \o validFilesOf(Tail(files))

RECURSIVE errorsOf(_)
errorsOf(files) ==
  IF files = << >> THEN << >>
  ELSE (IF accepted(Head(files)) THEN << >> ELSE <<errorFor(Head(files))>>)
         \o errorsOf(Tail(files))

\* simulateUpload for every valid file of the batch, in order
RECURSIVE startUploads(_, _)
startUploads(up, valid) ==
  IF valid = << >> THEN up
  ELSE startUploads(withKey(up, getFileId(Head(valid)), 0), Tail(valid))

RECURSIVE startTimers(_, _)
startTimers(tm, valid) ==
  IF valid = << >> THEN tm
  ELSE startTimers([tm EXCEPT ![getFileId(Head(valid))] = @ + 1], Tail(valid))

hasContent == Len(trim(inputState.text)) > 0 \/ Len(inputState.files) > 0
isUploading == \E i \in DOMAIN inputState.files :
                  progressOf(uploadProgress, getFileId(inputState.files[i])) < 100
isLoading == status = PROCESSING

\* submitDisabled with isLoading forgotten, and with the button kept disabled
\* once a run has failed
submitDisabledNoLoading == ~hasContent \/ isUploading
submitDisabledAfterError == ~hasContent \/ isLoading \/ isUploading \/ status = ERROR

\* submitDisabled with isUploading forgotten
submitDisabledNoUploadCheck == ~hasContent \/ isLoading

submitDisabled == ~hasContent \/ isLoading \/ isUploading

\* a continuation of handleSubmit is queued as a microtask: it runs before
\* the browser dispatches any further user event or timer
microtaskPending == \E i \in DOMAIN reqs : reqs[i].pc = "analyze"

----------------------------------------------------------------------------
(* services/gemini.ts: file preprocessing                                   *)

Rejected == <<"rejected">>

imageMime == "image/jpeg"

\* what reading one file can deliver: FileReader.readAsText content,
\* a data URL of canvas.toDataURL / FileReader.readAsDataURL, or a rejection
rawReads(file) ==
  IF isTxt(file) THEN {<<"body">>, Rejected}
  ELSE IF isImage(file)
    THEN {<<"data:", imageMime, ";base64", ",", "AAAA">>, <<"data:", ",">>, Rejected}
    ELSE IF file.size = 0
      THEN {<<"data:", "application/pdf", ";base64", ",">>, <<"data:">>, Rejected}
      ELSE {<<"data:", "application/pdf", ";base64", ",", "AAAA">>, Rejected}

\* dataUrl.indexOf(','): 0 stands for -1
RECURSIVE indexOfFrom(_, _, _)
indexOfFrom(s, tok, i) ==
  IF i > Len(s) THEN 0
  ELSE IF s[i] = tok THEN i ELSE indexOfFrom(s, tok, i + 1)

indexOf(s, tok) == indexOfFrom(s, tok, 1)

\* "data:" is the first token (5 characters); a token after it that begins a
\* ';' parameter ends the MIME type
parseDataUrl(dataUrl) ==
  LET commaIndex == indexOf(dataUrl, ",")
      head == SubSeq(dataUrl, 2, commaIndex - 1)
  IN IF commaIndex = 0
       THEN [ok |-> FALSE, mimeType |-> "", data |-> << >>]
       ELSE [ok |-> TRUE,
             mimeType |-> IF head = << >> \/ head[1] = ";base64" THEN "" ELSE head[1],
             data |-> SubSeq(dataUrl, commaIndex + 1, Len(dataUrl))]

Pending == [type |-> "pending", mimeType |-> "", data |-> << >>, text |-> << >>]

couldNotProcess(file) ==
  Err(<<"Could not process ", file.name, ". Please try a different file.">>)

\* processFile with the '[Attached File: ...]' frame of a text file forgotten
processFileBareText(file, raw) ==
  IF raw = Rejected THEN [ok |-> FALSE, error |-> couldNotProcess(file), part |-> Pending]
  ELSE IF isTxt(file)
    THEN [ok |-> TRUE, error |-> NoError,
          part |-> [type |-> "text_content", mimeType |-> "", data |-> << >>, text |-> raw]]
    ELSE LET parsed == parseDataUrl(raw)
         IN IF ~parsed.ok
              THEN [ok |-> FALSE, error |-> couldNotProcess(file), part |-> Pending]
              ELSE [ok |-> TRUE, error |-> NoError,
                    part |-> [type |-> "inline_data", mimeType |-> parsed.mimeType,
                              data |-> parsed.data, text |-> << >>]]

\* the async callback of processFilesForGemini for one file, given what the
\* read delivered
processFile(file, raw) ==
  IF raw = Rejected THEN [ok |-> FALSE, error |-> couldNotProcess(file), part |-> Pending]
  ELSE IF isTxt(file)
    THEN [ok |-> TRUE, error |-> NoError,
          part |-> [type |-> "text_content", mimeType |-> "", data |-> << >>,
                    text |-> <<"[Attached File: ", file.name, "]\n">> \o raw \o <<"\n---">>]]
    ELSE LET parsed == parseDataUrl(raw)
         IN IF ~parsed.ok
              THEN [ok |-> FALSE, error |-> couldNotProcess(file), part |-> Pending]
              ELSE [ok |-> TRUE, error |-> NoError,
                    part |-> [type |-> "inline_data", mimeType |-> parsed.mimeType,
                              data |-> parsed.data, text |-> << >>]]

----------------------------------------------------------------------------
(* services/gemini.ts: analyzeDocument and callWithRetry                    *)

ApiError(st, code) == [status |-> st, message |-> <<"got status: ", code>>]

networkError == Err(<<"Failed to fetch">>)
blankError == Err(<< >>)

\* server messages that quote a second number: a quota error that names a
\* limit of 400, an overload error that names a wait of 429
quotaLimitError == [status |-> 429,
                    message |-> <<"got status: ", "429", ". Limit: ", "400", " requests">>]
overloadError == [status |-> 503,
                  message |-> <<"got status: ", "503", ". Retry in ", "429", " ms">>]

ApiErrors == {networkError, blankError,
              ApiError(400, "400"), ApiError(401, "401"), ApiError(404, "404"),
              ApiError(429, "429"), ApiError(500, "500"), ApiError(503, "503"),
              quotaLimitError, overloadError}

FinishReasons == {"", "STOP", "SAFETY", "RECITATION", "MAX_TOKENS"}

fullJson == <<"{", "tldr", "ruleLens", "actionableSteps", "sourceCitation", "}">>

ResponseTexts == {<< >>, fullJson, <<"null">>, <<"{", "tldr", "}">>, <<"{", "tldr">>}

Responses == [finishReason : FinishReasons, text : ResponseTexts]

Null == [kind |-> "null", keys |-> {}]

\* JSON.parse on the tokenised response text
JSONparse(text) ==
  IF text = <<"null">> THEN [ok |-> TRUE, value |-> Null, error |-> NoError]
  ELSE IF Len(text) >= 2 /\ text[1] = "{" /\ text[Len(text)] = "}"
    THEN [ok |-> TRUE, error |-> NoError,
          value |-> [kind |-> "object",
                     keys |-> {text[k] : k \in 2..(Len(text) - 1)}]]
    ELSE [ok |-> FALSE, value |-> Null,
          error |-> Err(<<"Unexpected end of JSON input">>)]

\* the parts array of analyzeDocument
RECURSIVE partsOfFiles(_)
partsOfFiles(files) ==
  IF files = << >> THEN << >>
  ELSE LET file == Head(files)
       IN (IF file.type = "inline_data" /\ file.data # << >> /\ file.mimeType # ""
             THEN <<[inlineData |-> [mimeType |-> file.mimeType, data |-> file.data]]>>
           ELSE IF file.type = "text_content" /\ file.text # << >>
             THEN <<[text |-> file.text]>>
             ELSE << >>)
          \o partsOfFiles(Tail(files))

\* buildParts with the typed text put first
buildPartsTextFirst(text, files) ==
  (IF trim(text) # << >> THEN <<[text |-> <<"User Text Input:\n">> \o text]>> ELSE << >>)
    \o partsOfFiles(files)

buildParts(text, files) ==
  partsOfFiles(files)
    \o (IF trim(text) # << >> THEN <<[text |-> <<"User Text Input:\n">> \o text]>> ELSE << >>)

apiKeyMissing == Err(<<"System Error: API Key is missing. Please check configuration.">>)
noInput == Err(<<"No input provided. Please upload a file or enter text.">>)

\* callWithRetry's catch: TRUE when the error is rethrown instead of retried
isClientError(error) == includes(error.message, "400") \/ error.status = 400
isQuotaError(error) == includes(error.message, "429") \/ error.status = 429
\* rethrows with one retry too many, and with quota errors not retried
rethrowsOffByOne(error, retries) ==
  (isClientError(error) /\ ~isQuotaError(error)) \/ retries < 0
rethrowsQuota(error, retries) ==
  isClientError(error) \/ isQuotaError(error) \/ retries <= 0

\* rethrows with client errors retried like any other
rethrowsExhaustedOnly(error, retries) == retries <= 0

rethrows(error, retries) ==
  (isClientError(error) /\ ~isQuotaError(error)) \/ retries <= 0

\* nextRetries with the retry budget never spent
nextRetriesSame(retries) == retries

\* callWithRetry(fn, retries - 1, backoff * 2)
nextRetries(retries) == retries - 1
\* nextBackoff growing linearly
nextBackoffLinear(backoff) == backoff + INITIAL_RETRY_DELAY

nextBackoff(backoff) == backoff * 2

\* mapError with '429' tested before '400'
mapErrorQuotaFirst(error) ==
  IF includes(error.message, "429")
    THEN Err(<<"Service is currently busy. Please try again in a moment.">>)
  ELSE IF includes(error.message, "400")
    THEN Err(<<"The document is too large or contains prohibited content.">>)
  ELSE IF includes(error.message, "500") \/ includes(error.message, "503")
    THEN Err(<<"Gemini service is temporarily unavailable. Please try again.">>)
  ELSE error

\* the catch block of analyzeDocument
mapError(error) ==
  IF includes(error.message, "400")
    THEN Err(<<"The document is too large or contains prohibited content.">>)
  ELSE IF includes(error.message, "429")
    THEN Err(<<"Service is currently busy. Please try again in a moment.">>)
  ELSE IF includes(error.message, "500") \/ includes(error.message, "503")
    THEN Err(<<"Gemini service is temporarily unavailable. Please try again.">>)
  ELSE error

\* interpret with the finish reason never looked at, and with the empty
\* response text handed to JSON.parse
interpretNoFinishCheck(response) ==
  IF response.text = << >>
    THEN [ok |-> FALSE, value |-> Null,
          error |-> Err(<<"The AI returned an empty response. Please try again.">>)]
    ELSE JSONparse(response.text)
interpretEmptyParsed(response) ==
  IF response.finishReason # "" /\ response.finishReason # "STOP"
    THEN [ok |-> FALSE, value |-> Null, error |->
            IF response.finishReason = "SAFETY"
              THEN Err(<<"Analysis blocked. The document contains content flagged as unsafe or sensitive.">>)
            ELSE IF response.finishReason = "RECITATION"
              THEN Err(<<"Analysis blocked due to copyright content restrictions.">>)
              ELSE Err(<<"Analysis stopped unexpectedly (Reason: ", response.finishReason,
                         "). Please try a clearer document.">>)]
    ELSE JSONparse(response.text)

\* analyzeDocument after callWithRetry has returned the response
interpret(response) ==
  IF response.finishReason # "" /\ response.finishReason # "STOP"
    THEN [ok |-> FALSE, value |-> Null, error |->
            IF response.finishReason = "SAFETY"
              THEN Err(<<"Analysis blocked. The document contains content flagged as unsafe or sensitive.">>)
            ELSE IF response.finishReason = "RECITATION"
              THEN Err(<<"Analysis blocked due to copyright content restrictions.">>)
              ELSE Err(<<"Analysis stopped unexpectedly (Reason: ", response.finishReason,
                         "). Please try a clearer document.">>)]
  ELSE IF response.text = << >>
    THEN [ok |-> FALSE, value |-> Null,
          error |-> Err(<<"The AI returned an empty response. Please try again.">>)]
    ELSE JSONparse(response.text)

defaultErrorMsg == <<"An unexpected error occurred while analyzing the document.">>

\* messageOf with the default message forgotten
messageOfRaw(err) == err.message

\* err.message || "An unexpected error occurred ..."
messageOf(err) == IF err.message # << >> THEN err.message ELSE defaultErrorMsg

\* allSettled resolving with the first element, as Promise.any would
anySettled(parts) == \E k \in DOMAIN parts : parts[k] # Pending

\* Promise.all resolves when no element is pending any more
allSettled(parts) == \A k \in DOMAIN parts : parts[k] # Pending

----------------------------------------------------------------------------
(* State                                                                    *)

\* outcome records how the last run of handleSubmit ended: the API calls it
\* made, the waits between them, whether the last call resolved, and the
\* error handed to the catch block of handleSubmit
NoOutcome == [settled |-> FALSE, attempts |-> 0, waits |-> << >>,
              resolved |-> FALSE, thrown |-> NoError]

Init ==
  /\ status = IDLE
  /\ inputState = [text |-> << >>, files |-> << >>, language |-> "English"]
  /\ result = Null
  /\ errorMsg = << >>
  /\ uploadProgress = [k \in {} |-> 0]
  /\ timers = [id \in FileIds |-> 0]
  /\ validationErrors = << >>
  /\ apiKey \in BOOLEAN
  /\ reqs = << >>
  /\ outcome = NoOutcome

appVars == <<status, result, errorMsg, reqs, outcome>>
inputVars == <<inputState, uploadProgress, timers, validationErrors>>

----------------------------------------------------------------------------
(* User events and timers                                                   *)

\* textarea onChange
SetText(t) ==
  /\ ~microtaskPending
  /\ inputState' = [inputState EXCEPT !.text = t]
  /\ UNCHANGED <<appVars, uploadProgress, timers, validationErrors, apiKey>>

\* Header onLanguageChange
SetLanguage(lang) ==
  /\ ~microtaskPending
  /\ inputState' = [inputState EXCEPT !.language = lang]
  /\ UNCHANGED <<appVars, uploadProgress, timers, validationErrors, apiKey>>

\* browse / drop / camera capture
handleFiles(files) ==
  LET validFiles == validFilesOf(files)
      errors == errorsOf(files)
  IN /\ ~microtaskPending
     /\ Len(inputState.files) + Len(validFiles) <= MaxFiles
     /\ \A k \in DOMAIN validFiles :
          startTimers(timers, validFiles)[getFileId(validFiles[k])] <= MaxTimers
     /\ validationErrors' = errors
     /\ uploadProgress' = startUploads(uploadProgress, validFiles)
     /\ timers' = startTimers(timers, validFiles)
     /\ inputState' = IF Len(validFiles) > 0
                        THEN [inputState EXCEPT !.files = @ \o validFiles]
                        ELSE inputState
     /\ UNCHANGED <<appVars, apiKey>>

\* the X button of a FilePreview, rendered only when its progress is 100
removeFile(index) ==
  /\ ~microtaskPending
  /\ index \in DOMAIN inputState.files
  /\ ~(progressOf(uploadProgress, getFileId(inputState.files[index])) < 100)
  /\ uploadProgress' = withoutKey(uploadProgress, getFileId(inputState.files[index]))
  /\ inputState' = [inputState EXCEPT !.files = RemoveAt(@, index)]
  /\ UNCHANGED <<appVars, timers, validationErrors, apiKey>>

\* one firing of a setInterval callback of simulateUpload for this file id
Tick(fileId, inc) ==
  LET current == progressOf(uploadProgress, fileId)
  IN /\ ~microtaskPending
     /\ timers[fileId] > 0
     /\ IF current >= 100
          THEN /\ timers' = [timers EXCEPT ![fileId] = @ - 1]
               /\ uploadProgress' = withKey(uploadProgress, fileId, 100)
          ELSE /\ timers' = timers
               /\ uploadProgress' = withKey(uploadProgress, fileId, min(current + inc, 100))
     /\ UNCHANGED <<appVars, inputState, validationErrors, apiKey>>

\* handleReset with its button rendered whenever status is not IDLE
handleResetAnytime ==
  /\ ~microtaskPending
  /\ status # IDLE
  /\ status' = IDLE
  /\ result' = Null
  /\ inputState' = [inputState EXCEPT !.text = << >>, !.files = << >>]
  /\ outcome' = NoOutcome
  /\ UNCHANGED <<errorMsg, reqs, uploadProgress, timers, validationErrors, apiKey>>

\* handleReset with its button rendered in the error panel as well
handleResetFromError ==
  /\ ~microtaskPending
  /\ status \in {SUCCESS, ERROR}
  /\ status = SUCCESS => result # Null
  /\ status' = IDLE
  /\ result' = Null
  /\ inputState' = [inputState EXCEPT !.text = << >>, !.files = << >>]
  /\ outcome' = NoOutcome
  /\ UNCHANGED <<errorMsg, reqs, uploadProgress, timers, validationErrors, apiKey>>

\* "Analyze new" button, rendered when status is SUCCESS and result is truthy
handleReset ==
  /\ ~microtaskPending
  /\ status = SUCCESS /\ result # Null
  /\ status' = IDLE
  /\ result' = Null
  /\ inputState' = [inputState EXCEPT !.text = << >>, !.files = << >>]
  /\ outcome' = NoOutcome
  /\ UNCHANGED <<errorMsg, reqs, uploadProgress, timers, validationErrors, apiKey>>

----------------------------------------------------------------------------
(* handleSubmit and the request it runs                                     *)

\* quotaOnly is history: no API call of the request has failed with an error
\* that callWithRetry does not class as a quota error
newRequest ==
  [pc |-> IF inputState.files = << >> THEN "analyze" ELSE "files",
   files |-> inputState.files, text |-> inputState.text,
   parts |-> [k \in DOMAIN inputState.files |-> Pending],
   payload |-> << >>, attempts |-> 0, retries |-> MAX_RETRIES,
   backoff |-> INITIAL_RETRY_DELAY, lastErr |-> NoError, waits |-> << >>,
   quotaOnly |-> TRUE]

\* handleSubmit with setResult(null) forgotten
handleSubmitKeepsResult ==
  /\ ~microtaskPending
  /\ ~submitDisabled
  /\ Len(reqs) < MaxRequests
  /\ status' = PROCESSING
  /\ errorMsg' = << >>
  /\ reqs' = Append(reqs, newRequest)
  /\ outcome' = NoOutcome
  /\ UNCHANGED <<result, inputVars, apiKey>>

\* the click on the submit button: handleSubmit up to its first await
handleSubmit ==
  /\ ~microtaskPending
  /\ ~submitDisabled
  /\ Len(reqs) < MaxRequests
  /\ status' = PROCESSING
  /\ errorMsg' = << >>
  /\ result' = Null
  /\ reqs' = Append(reqs, newRequest)
  /\ outcome' = NoOutcome
  /\ UNCHANGED <<inputVars, apiKey>>

outcomeOf(r, resolved, thrown) ==
  [settled |-> TRUE, attempts |-> r.attempts, waits |-> r.waits,
   resolved |-> resolved, thrown |-> thrown]

\* the catch block of handleSubmit
appCatch(i, r, resolved, err) ==
  /\ status' = ERROR
  /\ errorMsg' = messageOf(err)
  /\ reqs' = RemoveAt(reqs, i)
  /\ outcome' = outcomeOf(r, resolved, err)
  /\ UNCHANGED <<result, inputVars, apiKey>>

\* handleSubmit after analyzeDocument returned
appSuccess(i, r, value) ==
  /\ result' = value
  /\ status' = SUCCESS
  /\ reqs' = RemoveAt(reqs, i)
  /\ outcome' = outcomeOf(r, TRUE, NoError)
  /\ UNCHANGED <<errorMsg, inputVars, apiKey>>

\* the read of file j of request i settles
FileSettle(i, j, raw) ==
  LET r == reqs[i]
      p == processFile(r.files[j], raw)
      parts == [r.parts EXCEPT ![j] = p.part]
  IN /\ ~microtaskPending
     /\ r.pc = "files"
     /\ r.parts[j] = Pending
     /\ IF ~p.ok
          THEN appCatch(i, r, FALSE, p.error)
          ELSE /\ reqs' = [reqs EXCEPT ![i] =
                      [r EXCEPT !.parts = parts,
                                !.pc = IF allSettled(parts) THEN "analyze" ELSE "files"]]
               /\ UNCHANGED <<status, result, errorMsg, outcome, inputVars, apiKey>>

\* Analyze with the parts built and checked before the API key, and with the
\* check of the parts forgotten
AnalyzePartsFirst(i) ==
  LET r == reqs[i]
      parts == buildParts(r.text, r.parts)
  IN /\ r.pc = "analyze"
     /\ IF Len(parts) = 0 THEN appCatch(i, r, FALSE, noInput)
        ELSE IF ~apiKey THEN appCatch(i, r, FALSE, apiKeyMissing)
        ELSE /\ reqs' = [reqs EXCEPT ![i] =
                    [r EXCEPT !.pc = "calling", !.payload = parts, !.attempts = 1,
                              !.files = << >>, !.text = << >>, !.parts = << >>]]
             /\ UNCHANGED <<status, result, errorMsg, outcome, inputVars, apiKey>>
AnalyzeNoPartsCheck(i) ==
  LET r == reqs[i]
      parts == buildParts(r.text, r.parts)
  IN /\ r.pc = "analyze"
     /\ IF ~apiKey THEN appCatch(i, r, FALSE, apiKeyMissing)
        ELSE /\ reqs' = [reqs EXCEPT ![i] =
                    [r EXCEPT !.pc = "calling", !.payload = parts, !.attempts = 1,
                              !.files = << >>, !.text = << >>, !.parts = << >>]]
             /\ UNCHANGED <<status, result, errorMsg, outcome, inputVars, apiKey>>

\* analyzeDocument from its entry to the first call of the model API.  Once the
\* parts are built nothing reads the captured files, text or processed files
\* again, so the request keeps the payload only
Analyze(i) ==
  LET r == reqs[i]
      parts == buildParts(r.text, r.parts)
  IN /\ r.pc = "analyze"
     /\ IF ~apiKey THEN appCatch(i, r, FALSE, apiKeyMissing)
        ELSE IF Len(parts) = 0 THEN appCatch(i, r, FALSE, noInput)
        ELSE /\ reqs' = [reqs EXCEPT ![i] =
                    [r EXCEPT !.pc = "calling", !.payload = parts, !.attempts = 1,
                              !.files = << >>, !.text = << >>, !.parts = << >>]]
             /\ UNCHANGED <<status, result, errorMsg, outcome, inputVars, apiKey>>

\* the pending generateContent call resolves
ApiResolve(i, response) ==
  LET r == reqs[i]
      v == interpret(response)
  IN /\ ~microtaskPending
     /\ r.pc = "calling"
     /\ IF v.ok THEN appSuccess(i, r, v.value)
        ELSE appCatch(i, r, TRUE, mapError(v.error))

\* the pending generateContent call rejects: the catch of callWithRetry
ApiReject(i, error) ==
  LET r == reqs[i]
  IN /\ ~microtaskPending
     /\ r.pc = "calling"
     /\ IF rethrows(error, r.retries)
          THEN appCatch(i, r, FALSE, mapError(error))
          ELSE /\ reqs' = [reqs EXCEPT ![i] =
                      [r EXCEPT !.pc = "backoff", !.lastErr = error,
                                !.waits = Append(@, r.backoff),
                                !.quotaOnly = @ /\ isQuotaError(error)]]
               /\ UNCHANGED <<status, result, errorMsg, outcome, inputVars, apiKey>>

\* delay(backoff) elapses: callWithRetry(fn, retries - 1, backoff * 2) calls fn
BackoffElapsed(i) ==
  LET r == reqs[i]
  IN /\ ~microtaskPending
     /\ r.pc = "backoff"
     /\ r.attempts < MaxAttempts
     /\ reqs' = [reqs EXCEPT ![i] =
            [r EXCEPT !.pc = "calling", !.attempts = @ + 1, !.lastErr = NoError,
                      !.retries = nextRetries(@), !.backoff = nextBackoff(@)]]
     /\ UNCHANGED <<status, result, errorMsg, outcome, inputVars, apiKey>>

RequestStep ==
  \E i \in DOMAIN reqs :
    \/ \E j \in DOMAIN reqs[i].files : \E raw \in rawReads(reqs[i].files[j]) :
         FileSettle(i, j, raw)
    \/ Analyze(i)
    \/ \E response \in Responses : ApiResolve(i, response)
    \/ \E error \in ApiErrors : ApiReject(i, error)
    \/ BackoffElapsed(i)

Next ==
  \/ \E t \in Texts : SetText(t)
  \/ \E lang \in LANGUAGES : SetLanguage(lang)
  \/ \E files \in Batches : handleFiles(files)
  \/ \E index \in 1..MaxFiles : removeFile(index)
  \/ \E fileId \in FileIds : \E inc \in Increments : Tick(fileId, inc)
  \/ handleReset
  \/ handleSubmit
  \/ \E i \in DOMAIN reqs : \E j \in DOMAIN reqs[i].files :
       \E raw \in rawReads(reqs[i].files[j]) : FileSettle(i, j, raw)
  \/ \E i \in DOMAIN reqs : Analyze(i)
  \/ \E i \in DOMAIN reqs : \E response \in Responses : ApiResolve(i, response)
  \/ \E i \in DOMAIN reqs : \E error \in ApiErrors : ApiReject(i, error)
  \/ \E i \in DOMAIN reqs : BackoffElapsed(i)

Spec == Init /\ [][Next]_vars

\* every file read, API call and backoff timer eventually settles or fires
FairSpec == Spec /\ WF_vars(RequestStep)

----------------------------------------------------------------------------
(* The request pipeline alone, started from the states in which the user    *)
(* has attached up to PipelineFiles accepted files whose uploads are done   *)
(* and typed a text.                                                        *)

FileLists == UNION {[1..n -> {f \in PipelineUniverse : accepted(f)}] : n \in 0..PipelineFiles}

PipelineInit ==
  /\ status = IDLE
  /\ inputState \in [text : Texts, files : FileLists, language : LANGUAGES]
  /\ result = Null
  /\ errorMsg = << >>
  /\ uploadProgress = [id \in {getFileId(f) : f \in Range(inputState.files)} |-> 100]
  /\ timers = [id \in FileIds |-> 0]
  /\ validationErrors = << >>
  /\ apiKey \in BOOLEAN
  /\ reqs = << >>
  /\ outcome = NoOutcome

PipelineNext ==
  \/ handleSubmit
  \/ handleReset
  \/ \E i \in DOMAIN reqs : \E j \in DOMAIN reqs[i].files :
       \E raw \in rawReads(reqs[i].files[j]) : FileSettle(i, j, raw)
  \/ \E i \in DOMAIN reqs : Analyze(i)
  \/ \E i \in DOMAIN reqs : \E response \in Responses : ApiResolve(i, response)
  \/ \E i \in DOMAIN reqs : \E error \in ApiErrors : ApiReject(i, error)
  \/ \E i \in DOMAIN reqs : BackoffElapsed(i)

PipelineSpec == PipelineInit /\ [][PipelineNext]_vars

----------------------------------------------------------------------------
(* The input card alone: files are offered, uploaded and removed, and the   *)
(* results of an earlier run are reset.  It starts from the initial state   *)
(* of the app and from the state after a successful run on typed text.      *)

InputInit ==
  /\ status \in {IDLE, SUCCESS}
  /\ inputState = [text |-> IF status = SUCCESS THEN <<"a">> ELSE << >>,
                   files |-> << >>, language |-> "English"]
  /\ result = IF status = SUCCESS THEN JSONparse(fullJson).value ELSE Null
  /\ errorMsg = << >>
  /\ uploadProgress = [k \in {} |-> 0]
  /\ timers = [id \in FileIds |-> 0]
  /\ validationErrors = << >>
  /\ apiKey = TRUE
  /\ reqs = << >>
  /\ outcome = IF status = SUCCESS
                 THEN [settled |-> TRUE, attempts |-> 1, waits |-> << >>,
                       resolved |-> TRUE, thrown |-> NoError]
                 ELSE NoOutcome

InputNext ==
  \/ \E files \in InputBatches : handleFiles(files)
  \/ \E index \in 1..MaxFiles : removeFile(index)
  \/ \E fileId \in FileIds : \E inc \in Increments : Tick(fileId, inc)
  \/ handleReset

InputSpec == InputInit /\ [][InputNext]_vars

\* every interval that is set keeps firing
InputFairSpec ==
  InputSpec /\ \A fileId \in FileIds : WF_vars(\E inc \in Increments : Tick(fileId, inc))

----------------------------------------------------------------------------
(* Claims                                                                   *)

\* C1: at most one run of handleSubmit is in progress in every reachable
\* state, and one is in progress exactly while status is PROCESSING.
C1_OneOutstandingRequest ==
  /\ Len(reqs) <= 1
  /\ (Len(reqs) = 1) <=> (status = PROCESSING)

\* a request is in flight while the input alone would allow a submit
C1_Witness ==
  /\ Len(reqs) = 1 /\ reqs[1].pc = "calling"
  /\ hasContent /\ ~isUploading

\* C2: one request calls the model API at most 4 times; a request whose 4th
\* attempt is pending makes no further attempt: its next step ends it, and
\* when that attempt fails the run ends in ERROR after exactly 4 attempts.
C2_RetriesBounded ==
  /\ [](/\ \A i \in DOMAIN reqs : reqs[i].attempts <= 4
        /\ outcome.attempts <= 4)
  /\ [][\A i \in DOMAIN reqs :
          (reqs[i].pc = "calling" /\ reqs[i].attempts = 4 /\ reqs' # reqs)
            => /\ Len(reqs') = Len(reqs) - 1
               /\ outcome'.settled /\ outcome'.attempts = 4
               /\ (~outcome'.resolved => status' = ERROR)]_vars

\* a run that failed 4 times and then surfaced its error
C2_Witness ==
  outcome.settled /\ ~outcome.resolved /\ outcome.attempts = 4 /\ status = ERROR

expectedWaits == <<1000, 2000, 4000>>

\* C3: the waits of a request are 1000, 2000, 4000 ms, one before each retry:
\* none before the first attempt, k - 1 when the k-th attempt is pending, k
\* while the wait after the k-th failure runs, and none after the final failure.
C3_ExponentialBackoff ==
  /\ \A i \in DOMAIN reqs :
       LET r == reqs[i]
       IN /\ r.pc \in {"files", "analyze"} => r.attempts = 0 /\ r.waits = << >>
          /\ r.pc = "calling" =>
               r.attempts \in 1..4 /\ r.waits = SubSeq(expectedWaits, 1, r.attempts - 1)
          /\ r.pc = "backoff" =>
               r.attempts \in 1..3 /\ r.waits = SubSeq(expectedWaits, 1, r.attempts)
  /\ (outcome.settled /\ outcome.attempts >= 1) =>
       outcome.waits = SubSeq(expectedWaits, 1, outcome.attempts - 1)
  /\ (outcome.settled /\ outcome.attempts = 0) => outcome.waits = << >>

\* a run that waited 1000, 2000 and 4000 ms and then failed for good
C3_Witness ==
  /\ outcome.settled /\ ~outcome.resolved
  /\ outcome.waits = <<1000, 2000, 4000>>

isClient4xx(error) == error.status \in 400..499 /\ error.status # 429

\* C4: a failure that is a 4xx client error other than 429 is never retried:
\* no request waits for a retry after such a failure.
C4_ClientErrorsNeverRetried ==
  \A i \in DOMAIN reqs :
    (reqs[i].pc = "backoff") => ~isClient4xx(reqs[i].lastErr)

isTransient(error) == error = networkError \/ error.status = 429

busyError == Err(<<"Service is currently busy. Please try again in a moment.">>)

\* what analyzeDocument can throw after the API call has resolved
ResponseErrors == {interpret(response).error : response \in Responses} \ {NoError}

C5_State ==
  /\ (outcome.settled /\ ~outcome.resolved /\ outcome.attempts >= 1
        /\ outcome.thrown \in {networkError, busyError}) => (outcome.attempts = 4)
  /\ (outcome.settled /\ outcome.resolved) =>
        (/\ outcome.attempts \in 1..4
         /\ \/ outcome.thrown = NoError /\ status = SUCCESS
            \/ outcome.thrown \in ResponseErrors /\ status = ERROR)

C5_Step ==
  \A i \in DOMAIN reqs :
    /\ (reqs[i].pc = "calling" /\ reqs[i].retries > 0 /\ reqs' # reqs
          /\ Len(reqs') = Len(reqs) /\ isTransient(reqs'[i].lastErr)) =>
         (reqs'[i].pc = "backoff")
    /\ (reqs[i].pc = "backoff" /\ reqs' # reqs) =>
         (/\ Len(reqs') = Len(reqs)
          /\ reqs'[i].pc = "calling"
          /\ reqs'[i].attempts = reqs[i].attempts + 1)
    /\ (reqs[i].pc = "calling" /\ outcome'.settled /\ outcome'.resolved
          /\ ~outcome.settled) =>
         (/\ Len(reqs') = Len(reqs) - 1
          /\ outcome'.attempts = reqs[i].attempts)

\* C5: a network or 429 failure with retries left is followed by a wait and
\* then another attempt, so such a failure surfaces only from the 4th attempt;
\* when an attempt resolves the run ends there with that attempt's count, and
\* what it shows is the result or an error raised from that response, never
\* an error of an earlier attempt.
C5_TransientRetried == []C5_State /\ [][C5_Step]_vars

\* the 4th attempt, made after three transient failures, succeeded
C5_Witness ==
  outcome.settled /\ outcome.resolved /\ outcome.attempts = 4 /\ status = SUCCESS

\* the <p>{errorMsg}</p> of the error panel, rendered when status is ERROR
errorPanel == IF status = ERROR THEN errorMsg ELSE << >>

\* C6: whenever status is ERROR the panel shows a non-empty message: the
\* thrown error's message, or the default when that error has none.
C6_ErrorMessageShown ==
  (status = ERROR) =>
    (/\ errorMsg # << >>
     /\ errorPanel = errorMsg
     /\ outcome.settled /\ outcome.thrown # NoError
     /\ errorMsg = IF outcome.thrown.message # << >>
                     THEN outcome.thrown.message ELSE defaultErrorMsg)

\* the run failed with an error that carries no message
C6_Witness ==
  status = ERROR /\ outcome.thrown = blankError /\ errorMsg = defaultErrorMsg

C7_State ==
  (status = ERROR /\ hasContent /\ ~isUploading) =>
    (~submitDisabled /\ ENABLED handleSubmit)

C7_Step ==
  /\ (status = ERROR /\ status' # ERROR) =>
       (/\ status' = PROCESSING /\ errorMsg' = << >>
        /\ Len(reqs') = Len(reqs) + 1
        /\ inputState' = inputState)
  /\ (status # ERROR /\ status' = ERROR) =>
       (/\ inputState' = inputState
        /\ uploadProgress' = uploadProgress)

\* C7: in status ERROR with content and no upload in progress the submit
\* button is enabled and a click starts a request; a submit from ERROR moves
\* to PROCESSING with the error message cleared; the step into ERROR leaves
\* the input text and files as they were.
C7_ManualRetry == []C7_State /\ [][C7_Step]_vars

\* a run has failed and the input it was started from is still there to resubmit
C7_Witness ==
  /\ status = ERROR /\ outcome.attempts = 4
  /\ inputState.files # << >> /\ ~isUploading /\ ~submitDisabled

C8_State == (status = PROCESSING) => (Len(reqs) >= 1)

C8_Step ==
  (status = PROCESSING) =>
    (/\ (inputState' # inputState \/ uploadProgress' # uploadProgress
           \/ timers' # timers \/ validationErrors' # validationErrors) =>
          (status' = status /\ reqs' = reqs)
     /\ (status' # PROCESSING) =>
          (/\ status' \in {SUCCESS, ERROR}
           /\ Len(reqs') = Len(reqs) - 1
           /\ outcome'.settled /\ ~outcome.settled))

\* C8: while status is PROCESSING the request stays in flight; a step that
\* changes the input bundle, the upload progress, the timers or the
\* validation errors leaves status and the request alone; status leaves
\* PROCESSING only for SUCCESS or ERROR, in the step that settles the request.
C8_NoCancellation == []C8_State /\ [][C8_Step]_vars

\* the input was emptied while the request waits between two attempts
C8_Witness ==
  /\ Len(reqs) = 1 /\ reqs[1].pc = "backoff" /\ status = PROCESSING
  /\ inputState.text = << >> /\ inputState.files = << >>

\* C9: under fair scheduling of file reads, API calls and backoff timers,
\* every state with status PROCESSING is followed by SUCCESS or ERROR.
C9_SubmitTerminates ==
  (status = PROCESSING) ~> (status \in {SUCCESS, ERROR})

\* a run went through all its retries and ended
C9_Witness ==
  status = ERROR /\ outcome.settled /\ outcome.attempts = 4 /\ Len(outcome.waits) = 3

C10_State ==
  \A i \in DOMAIN reqs : (reqs[i].pc = "files") => (reqs[i].attempts = 0)

C10_Step ==
  \A i \in DOMAIN reqs :
    /\ (reqs[i].attempts = 0 /\ Len(reqs') = Len(reqs) /\ reqs'[i].attempts > 0) =>
         (\A k \in DOMAIN reqs[i].parts : reqs[i].parts[k] # Pending)
    /\ (reqs[i].pc = "files" /\ Len(reqs') < Len(reqs)) =>
         (/\ status' = ERROR
          /\ outcome'.attempts = 0
          /\ \E k \in DOMAIN reqs[i].files :
               /\ reqs[i].parts[k] = Pending
               /\ errorMsg' = <<"Could not process ", reqs[i].files[k].name,
                                ". Please try a different file.">>)

\* C10: the first API call of a request is issued in a step that starts with
\* every attached file processed; when a request ends while files are still
\* being read, no API call was made and status is ERROR with the message
\* 'Could not process <name>. Please try a different file.' of one of its files.
C10_SequentialSteps == []C10_State /\ [][C10_Step]_vars

\* a run with two different files ended because the second could not be
\* processed
C10_Witness ==
  /\ status = ERROR /\ outcome.attempts = 0
  /\ Len(inputState.files) = 2
  /\ inputState.files[1] # inputState.files[2]
  /\ errorMsg = <<"Could not process ", inputState.files[2].name,
                  ". Please try a different file.">>

\* the keys of AptusResponse
AptusKeys == {"tldr", "ruleLens", "actionableSteps", "sourceCitation"}

\* the results section of App: ResultsView is rendered with the stored result
resultsRendered == status = SUCCESS /\ result # Null

\* C11: whenever status is SUCCESS, the stored result that is rendered is an
\* object with the keys tldr, ruleLens, actionableSteps and sourceCitation.
C11_ResponseShape ==
  resultsRendered => (result.kind = "object" /\ AptusKeys \subseteq result.keys)

\* C12: status PROCESSING implies result = null and errorMsg = ''; status
\* ERROR implies result = null; status IDLE implies result = null.
C12_ResultTransient ==
  /\ (status = PROCESSING) => (result = Null /\ errorMsg = << >>)
  /\ (status = ERROR) => (result = Null)
  /\ (status = IDLE) => (result = Null)

\* a submit that followed a reset is in flight: the progress entry of the
\* file of the earlier, successful run is still there
C12_Witness ==
  /\ status = PROCESSING /\ Len(reqs) = 1 /\ result = Null /\ errorMsg = << >>
  /\ DOMAIN uploadProgress # {} /\ inputState.files = << >>

StatusTransitions ==
  {<<IDLE, PROCESSING>>, <<PROCESSING, SUCCESS>>, <<PROCESSING, ERROR>>,
   <<SUCCESS, PROCESSING>>, <<ERROR, PROCESSING>>, <<SUCCESS, IDLE>>}

C13_Step ==
  /\ (status' # status) => (<<status, status'>> \in StatusTransitions)
  /\ (status # PROCESSING /\ status' = PROCESSING) =>
        (Len(reqs') = Len(reqs) + 1)
  /\ (status = SUCCESS /\ status' = IDLE) =>
        (result # Null /\ inputState'.files = << >> /\ inputState'.text = << >>)

\* C13: status changes only along IDLE->PROCESSING, PROCESSING->SUCCESS,
\* PROCESSING->ERROR, SUCCESS->PROCESSING, ERROR->PROCESSING and SUCCESS->IDLE;
\* PROCESSING is entered by a submit and IDLE by a reset.  SUCCESS and ERROR
\* are so entered from PROCESSING only, and IDLE from SUCCESS only.
C13_StatusTransitions == [][C13_Step]_vars

\* the app is back in IDLE after a reset: the input is empty while the
\* progress entry of the analysed file is still there
C13_Witness ==
  /\ status = IDLE /\ inputState.files = << >>
  /\ DOMAIN uploadProgress # {} /\ outcome = NoOutcome

finishMessage(reason) ==
  IF reason = "SAFETY"
    THEN <<"Analysis blocked. The document contains content flagged as unsafe or sensitive.">>
  ELSE IF reason = "RECITATION"
    THEN <<"Analysis blocked due to copyright content restrictions.">>
    ELSE <<"Analysis stopped unexpectedly (Reason: ", reason, "). Please try a clearer document.">>

\* the run of request i ends in this step in ERROR with this message, with no
\* further API call
endsInError(i, message) ==
  /\ status' = ERROR /\ errorMsg' = message /\ result' = Null
  /\ Len(reqs') = Len(reqs) - 1
  /\ outcome'.settled /\ outcome'.attempts = reqs[i].attempts
  /\ outcome'.waits = reqs[i].waits

C14_Step ==
  \A i \in DOMAIN reqs : \A response \in Responses :
    (response.finishReason \notin {"", "STOP"} /\ ApiResolve(i, response)) =>
      endsInError(i, finishMessage(response.finishReason))

\* C14: when the API call resolves with a finish reason other than STOP, that
\* step ends the run with status ERROR, no result and no further API call, and
\* the message shown is the SAFETY, RECITATION or 'Analysis stopped
\* unexpectedly (Reason: <reason>)' text, unchanged.
C14_FinishReasonErrors == [][C14_Step]_vars

\* a response that stopped for MAX_TOKENS, received on a retry
C14_Witness ==
  /\ status = ERROR /\ outcome.resolved /\ outcome.attempts = 2
  /\ errorMsg = <<"Analysis stopped unexpectedly (Reason: ", "MAX_TOKENS",
                  "). Please try a clearer document.">>

emptyResponseMsg == <<"The AI returned an empty response. Please try again.">>

C15_OriginalStep ==
  \A i \in DOMAIN reqs : \A response \in Responses :
    (response.text = << >> /\ ApiResolve(i, response)) =>
      endsInError(i, emptyResponseMsg)

\* C15 as stated: whenever the API call resolves with empty or missing text,
\* the run ends in ERROR with 'The AI returned an empty response. Please try
\* again.' and no further API call.
C15_EmptyResponse == [][C15_OriginalStep]_vars

C15_Step ==
  \A i \in DOMAIN reqs : \A response \in Responses :
    (response.text = << >> /\ ApiResolve(i, response)) =>
      endsInError(i, IF response.finishReason \in {"", "STOP"}
                       THEN emptyResponseMsg
                       ELSE finishMessage(response.finishReason))

\* C15 amended: whenever the API call resolves with empty or missing text, the
\* run ends in ERROR with no further API call; the message is 'The AI returned
\* an empty response. Please try again.' when the finish reason is absent or
\* STOP, and the finish-reason message otherwise.
C15_EmptyResponseAmended == [][C15_Step]_vars

\* an empty response ended the run
C15_Witness ==
  status = ERROR /\ outcome.resolved /\ errorMsg = emptyResponseMsg

tooLargeError == Err(<<"The document is too large or contains prohibited content.">>)
unavailableError == Err(<<"Gemini service is temporarily unavailable. Please try again.">>)

\* the error analyzeDocument surfaces for an error thrown inside its try block
surfaced(error) ==
  IF "400" \in Range(error.message) THEN tooLargeError
  ELSE IF "429" \in Range(error.message) THEN busyError
  ELSE IF {"500", "503"} \cap Range(error.message) # {} THEN unavailableError
  ELSE error

C16_Step ==
  \A i \in DOMAIN reqs :
    /\ \A error \in ApiErrors :
         (ApiReject(i, error) /\ Len(reqs') < Len(reqs)) =>
           (/\ outcome'.thrown = surfaced(error)
            /\ endsInError(i, messageOf(surfaced(error))))
    /\ \A response \in Responses :
         (ApiResolve(i, response) /\ status' = ERROR) =>
           (\E error \in ResponseErrors :
              /\ outcome'.thrown = surfaced(error)
              /\ endsInError(i, messageOf(surfaced(error))))

\* C16: when a run ends because an API call was rejected, the error handed to
\* handleSubmit is chosen from the message of that rejection, the last one of
\* the run: 'too large' if it contains '400', else 'busy' if it contains
\* '429', else 'unavailable' if it contains '500' or '503', else the error
\* itself; an error raised from a resolved response is mapped the same way.
C16_ErrorPrecedence == [][C16_Step]_vars

\* all four attempts failed, the last with a quota error that names a limit
\* of 400: its message holds '400' and '429', and '400' wins
C16_Witness ==
  /\ status = ERROR /\ outcome.attempts = 4 /\ ~outcome.resolved
  /\ outcome.thrown = tooLargeError

C17_OriginalStep ==
  \A i \in DOMAIN reqs : \A error \in ApiErrors :
    (/\ ApiReject(i, error) /\ Len(reqs') < Len(reqs)
     /\ reqs[i].quotaOnly /\ isQuotaError(error) /\ reqs[i].retries <= 0) =>
      (errorMsg' = busyError.message)

\* C17 as stated: whenever every failure of a request was classed as a quota
\* error and the retries ran out, the message shown is 'Service is currently
\* busy...'; and whenever 'The document is too large...' is shown, the
\* request made exactly one API call.
C17_ClassificationAgrees ==
  /\ [][C17_OriginalStep]_vars
  /\ []((status = ERROR /\ errorMsg = tooLargeError.message) => (outcome.attempts = 1))

C17_Step ==
  \A i \in DOMAIN reqs : \A error \in ApiErrors :
    /\ (/\ ApiReject(i, error) /\ Len(reqs') < Len(reqs)
        /\ reqs[i].retries <= 0
        /\ includes(error.message, "429") /\ ~includes(error.message, "400")) =>
         (errorMsg' = busyError.message /\ outcome'.attempts = 4)
    /\ (/\ ApiReject(i, error)
        /\ includes(error.message, "400") /\ ~isQuotaError(error)) =>
         (/\ endsInError(i, tooLargeError.message)
          /\ reqs[i].attempts \in 1..4)

\* C17 amended: when the retries run out on a failure whose message contains
\* '429' and not '400', the message shown is 'Service is currently busy...';
\* and a failure whose message contains '400' and that is not a quota error is
\* never retried: its step ends the run with 'The document is too large...',
\* after 1 to 4 API calls.
C17_ClassificationAgreesAmended == [][C17_Step]_vars

\* a 400 failure on the second attempt, after a retried failure
C17_Witness ==
  /\ status = ERROR /\ errorMsg = tooLargeError.message
  /\ outcome.attempts = 2 /\ ~outcome.resolved

C18_State ==
  (~apiKey) =>
    (/\ \A i \in DOMAIN reqs :
          /\ reqs[i].pc \in {"files", "analyze"}
          /\ reqs[i].payload = << >> /\ reqs[i].attempts = 0
     /\ outcome.attempts = 0 /\ outcome.waits = << >>
     /\ status # SUCCESS)

C18_Step ==
  \A i \in DOMAIN reqs :
    (~apiKey /\ Analyze(i)) =>
      (/\ endsInError(i, apiKeyMissing.message)
       /\ outcome'.thrown = apiKeyMissing)

\* C18: without an API key, the step that enters analyzeDocument ends the run
\* with status ERROR and 'System Error: API Key is missing. Please check
\* configuration.', whatever the text and the processed files are; no request
\* builds parts, calls the API or waits for a retry.
C18_ApiKeyMissing == []C18_State /\ [][C18_Step]_vars

\* the key is missing and the input is one from which no part could be built
C18_Witness ==
  /\ ~apiKey /\ status = ERROR /\ errorMsg = apiKeyMissing.message
  /\ inputState.files = <<pdfFile>> /\ trim(inputState.text) = << >>

C19_State ==
  \A i \in DOMAIN reqs :
    /\ (reqs[i].pc \in {"calling", "backoff"}) => (Len(reqs[i].payload) > 0)
    /\ (reqs[i].attempts > 0) => (Len(reqs[i].payload) > 0)

C19_OriginalStep ==
  \A i \in DOMAIN reqs :
    (Len(buildParts(reqs[i].text, reqs[i].parts)) = 0 /\ Analyze(i)) =>
      (endsInError(i, noInput.message) /\ outcome'.attempts = 0)

\* C19 as stated: whenever analyzeDocument is entered with processed files and
\* text from which no part can be built, the run ends with 'No input provided.
\* Please upload a file or enter text.' and no API call; an API call is in
\* flight only with a non-empty list of parts.
C19_NoInput == []C19_State /\ [][C19_OriginalStep]_vars

C19_Step ==
  \A i \in DOMAIN reqs :
    (Len(buildParts(reqs[i].text, reqs[i].parts)) = 0 /\ Analyze(i)) =>
      (/\ endsInError(i, IF apiKey THEN noInput.message ELSE apiKeyMissing.message)
       /\ outcome'.attempts = 0)

\* C19 amended: whenever analyzeDocument is entered with processed files and
\* text from which no part can be built, the run ends with no API call: with
\* 'No input provided. Please upload a file or enter text.' when the API key
\* is configured, and with the missing-key error otherwise; an API call is in
\* flight only with a non-empty list of parts.
C19_NoInputAmended == []C19_State /\ [][C19_Step]_vars

\* a zero-byte PDF was read to empty data and left no part
C19_Witness ==
  /\ apiKey /\ status = ERROR /\ errorMsg = noInput.message
  /\ outcome.attempts = 0

\* C20: no run started by a click on the submit button ends with 'No input
\* provided...': when analyzeDocument is entered, at least one part can be
\* built from the processed files and the text.
C20_NoInputUnreachable ==
  /\ \A i \in DOMAIN reqs :
       (reqs[i].pc = "analyze") => (Len(buildParts(reqs[i].text, reqs[i].parts)) > 0)
  /\ ~(status = ERROR /\ errorMsg = noInput.message)

\* the payload part of one processed file
partFor(file) ==
  IF file.type = "inline_data"
    THEN [inlineData |-> [mimeType |-> file.mimeType, data |-> file.data]]
    ELSE [text |-> file.text]

userTextPart(text) ==
  IF trim(text) = << >> THEN << >> ELSE <<[text |-> <<"User Text Input:\n">> \o text]>>

\* a processed file that analyzeDocument can use
usable(file) ==
  \/ file.type = "inline_data" /\ file.data # << >> /\ file.mimeType # ""
  \/ file.type = "text_content" /\ file.text # << >>

C21_OriginalStep ==
  \A i \in DOMAIN reqs :
    (Analyze(i) /\ Len(reqs') = Len(reqs)) =>
      (reqs'[i].payload =
         [k \in DOMAIN reqs[i].parts |-> partFor(reqs[i].parts[k])]
           \o userTextPart(reqs[i].text))

\* C21 as stated: the payload of the first API call is one part per processed
\* file, in the order of the list, followed by the 'User Text Input:' part
\* exactly when the typed text is not blank.
C21_PayloadOrder == [][C21_OriginalStep]_vars

C21_Step ==
  \A i \in DOMAIN reqs :
    (Analyze(i) /\ Len(reqs') = Len(reqs)) =>
      LET used == SelectSeq(reqs[i].parts, usable)
      IN reqs'[i].payload =
           [k \in DOMAIN used |-> partFor(used[k])] \o userTextPart(reqs[i].text)

\* C21 amended: the payload of the first API call is one part per usable
\* processed file (inline data with data and MIME type, text content with
\* text), in the order of the list, followed by the 'User Text Input:' part
\* exactly when the typed text is not blank.
C21_PayloadOrderAmended == [][C21_Step]_vars

\* a payload of an image, a text file and the typed text, in that order
C21_Witness ==
  /\ Len(reqs) = 1 /\ reqs[1].pc = "calling" /\ Len(reqs[1].payload) = 3
  /\ DOMAIN reqs[1].payload[1] = {"inlineData"}
  /\ reqs[1].payload[2].text[1] = "[Attached File: "
  /\ reqs[1].payload[3].text[1] = "User Text Input:\n"

\* the read of a file fails, or delivers a data URL without a comma
readFails(file, raw) ==
  raw = Rejected \/ (~isTxt(file) /\ "," \notin Range(raw))

\* what follows the first comma of a data URL
afterComma(raw) ==
  LET c == CHOOSE k \in DOMAIN raw : raw[k] = "," /\ \A m \in 1..(k - 1) : raw[m] # ","
  IN SubSeq(raw, c + 1, Len(raw))

C26_State ==
  \A i \in DOMAIN reqs :
    /\ (reqs[i].pc = "files") => (Len(reqs[i].parts) = Len(reqs[i].files))
    /\ (reqs[i].pc = "analyze") =>
         (/\ Len(reqs[i].parts) = Len(reqs[i].files)
          /\ \A k \in DOMAIN reqs[i].files :
               LET file == reqs[i].files[k]
                   part == reqs[i].parts[k]
               IN IF file.type = <<"text", "plain">>
                    THEN /\ part.type = "text_content"
                         /\ Len(part.text) >= 4
                         /\ SubSeq(part.text, 1, 3) = <<"[Attached File: ", file.name, "]\n">>
                         /\ part.text[Len(part.text)] = "\n---"
                    ELSE /\ part.type = "inline_data"
                         /\ (file.type[1] = "image" /\ part.mimeType # "") =>
                               (part.mimeType = "image/jpeg"))

C26_Step ==
  \A i \in DOMAIN reqs : \A j \in DOMAIN reqs[i].files :
    \A raw \in rawReads(reqs[i].files[j]) :
      FileSettle(i, j, raw) =>
        LET file == reqs[i].files[j]
        IN IF readFails(file, raw)
             THEN /\ endsInError(i, <<"Could not process ", file.name,
                                      ". Please try a different file.">>)
                  /\ outcome'.attempts = 0
             ELSE /\ Len(reqs') = Len(reqs)
                  /\ reqs'[i].files = reqs[i].files
                  /\ \A k \in DOMAIN reqs[i].parts :
                        (k # j) => (reqs'[i].parts[k] = reqs[i].parts[k])
                  /\ reqs'[i].parts[j].type =
                        (IF file.type = <<"text", "plain">> THEN "text_content" ELSE "inline_data")
                  /\ (file.type = <<"text", "plain">>) =>
                        (reqs'[i].parts[j].text =
                           <<"[Attached File: ", file.name, "]\n">> \o raw \o <<"\n---">>)
                  /\ (file.type # <<"text", "plain">>) =>
                        (reqs'[i].parts[j].data = afterComma(raw))

\* C26: when the files of a request are processed there is one part per file,
\* at the file's position: a text/plain file gives the text_content part
\* '[Attached File: <name>]\n<content>\n---', an image an inline_data part of
\* the JPEG the canvas exported, any other file an inline_data part with what
\* follows the comma of its data URL; a file that cannot be read ends the run
\* with 'Could not process <name>...' and analyzeDocument is not entered.
C26_OnePartPerFile == []C26_State /\ [][C26_Step]_vars

\* a PDF and a text file were processed, in that order
C26_Witness ==
  /\ Len(reqs) = 1 /\ reqs[1].pc = "analyze"
  /\ reqs[1].files = <<docFile, txtFile>>
  /\ reqs[1].parts[1].type = "inline_data" /\ reqs[1].parts[1].data = <<"AAAA">>
  /\ reqs[1].parts[2].type = "text_content"

\* the state after a successful run on the typed text "a", from which the
\* input card is explored
InputStartReached ==
  /\ status = SUCCESS /\ inputState = [text |-> <<"a">>, files |-> << >>, language |-> "English"]
  /\ result = JSONparse(fullJson).value /\ errorMsg = << >>
  /\ uploadProgress = [k \in {} |-> 0] /\ timers = [id \in FileIds |-> 0]
  /\ validationErrors = << >> /\ apiKey = TRUE /\ reqs = << >>
  /\ outcome = [settled |-> TRUE, attempts |-> 1, waits |-> << >>,
                resolved |-> TRUE, thrown |-> NoError]

MiB == 1024 * 1024

withinLimit(file) == file.size <= 20 * MiB

typeAllowed(file) ==
  \/ file.type[1] = "image"
  \/ file.type = <<"application", "pdf">>
  \/ file.type = <<"text", "plain">>

valid(file) == withinLimit(file) /\ typeAllowed(file)
invalid(file) == ~valid(file)

validationError(file) ==
  IF ~withinLimit(file) THEN <<"\"", file.name, "\" exceeds ", 20, "MB.">>
  ELSE <<"\"", file.name, "\" is not supported.">>

C22_State ==
  \A k \in DOMAIN inputState.files : valid(inputState.files[k])

C22_Step ==
  \A files \in InputBatches :
    handleFiles(files) =>
      LET kept == SelectSeq(files, valid)
          refused == SelectSeq(files, invalid)
      IN /\ inputState'.files = inputState.files \o kept
         /\ validationErrors' = [k \in DOMAIN refused |-> validationError(refused[k])]
         /\ Len(kept) + Len(validationErrors') = Len(files)

\* C22: every attached file is at most 20 MiB and of type image/*,
\* application/pdf or text/plain; a batch appends its valid files after the
\* attached ones in batch order and reports each other file by one error, in
\* batch order: 'exceeds 20MB' if it is too large, else 'is not supported'.
C22_FileValidation == []C22_State /\ [][C22_Step]_vars

\* a batch of an oversized file of an unsupported type and a PDF of exactly
\* 20 MiB was offered after a text file was attached
C22_Witness ==
  /\ inputState.files = <<txtFile, edgeFile>>
  /\ validationErrors = << <<"\"", "f.exe", "\" exceeds ", 20, "MB.">> >>

nonBlank(text) == \E k \in DOMAIN text : text[k] # " "

allUploaded ==
  \A k \in DOMAIN inputState.files :
    LET id == <<inputState.files[k].name, inputState.files[k].size,
                inputState.files[k].lastModified>>
    IN id \in DOMAIN uploadProgress /\ uploadProgress[id] = 100

submitAllowed ==
  /\ nonBlank(inputState.text) \/ Len(inputState.files) >= 1
  /\ status # PROCESSING
  /\ allUploaded

C23_State ==
  /\ (~submitDisabled) <=> submitAllowed
  /\ (ENABLED handleSubmit) <=> submitAllowed

C23_Step ==
  (Len(reqs') > Len(reqs)) =>
    (submitAllowed /\ reqs'[Len(reqs')].files = inputState.files)

\* C23: the submit button is enabled, and a click starts a request, exactly
\* when the text is not blank or a file is attached, status is not PROCESSING
\* and the progress of every attached file is 100; a request starts only from
\* such a state, with the files attached then.
C23_SubmitEnabled == []C23_State /\ [][C23_Step]_vars

\* text is typed and a file is attached, and the button is disabled only
\* because the file is still uploading
C23_Witness ==
  /\ status = IDLE /\ inputState.text = <<"a">> /\ Len(inputState.files) = 1
  /\ uploadProgress[getFileId(inputState.files[1])] = 60
  /\ submitDisabled

\* a file with this id is attached
attached(id) == \E k \in DOMAIN inputState.files : getFileId(inputState.files[k]) = id
attachedNext(id) == \E k \in DOMAIN inputState'.files : getFileId(inputState'.files[k]) = id

\* the progress the preview of a file with this id shows
shown(id) == IF id \in DOMAIN uploadProgress THEN uploadProgress[id] ELSE 0
shownNext(id) == IF id \in DOMAIN uploadProgress' THEN uploadProgress'[id] ELSE 0

C24_State ==
  \A id \in DOMAIN uploadProgress : uploadProgress[id] >= 0 /\ uploadProgress[id] <= 100

C24_Step ==
  \A id \in FileIds :
    /\ (~attached(id) /\ attachedNext(id)) => (shownNext(id) = 0)
    /\ (attached(id) /\ attachedNext(id)) => (shownNext(id) >= shown(id))
    /\ (attached(id) /\ attachedNext(id) /\ shown(id) = 100 /\ timers[id] = 0) =>
         (shownNext(id) = 100 /\ timers'[id] = 0)

C24_Live ==
  \A id \in FileIds : (attached(id) /\ shown(id) < 100) ~> (shown(id) = 100)

\* C24: the progress of an attached file starts at 0 when the file is added,
\* stays within 0..100, never decreases while the file is attached, and,
\* with every interval firing, reaches 100; once it is 100 and its interval
\* is cleared it stays 100 with no interval running.
C24_UploadProgress == []C24_State /\ [][C24_Step]_vars /\ C24_Live

\* an attached file shows as uploading and no interval runs for it
stuckUpload ==
  \E k \in DOMAIN inputState.files :
    /\ shown(getFileId(inputState.files[k])) < 100
    /\ timers[getFileId(inputState.files[k])] = 0

C25_Step ==
  \A id \in FileIds :
    (attached(id) /\ attachedNext(id) /\ shown(id) = 100) => (shownNext(id) = 100)

\* C25: once the progress of an attached file is 100 it stays 100 for as long
\* as a file with that id is attached, whatever is added, removed or ticks;
\* and no attached file shows as uploading while no interval runs for it.
C25_FinishedStaysFinished == [](~stuckUpload) /\ [][C25_Step]_vars

====
